---- MODULE Spec2Model ----
(***************************************************************************)
(* The two Streamlit dashboards of the repository, app_matplotlib.py and   *)
(* app_plotly_pandas.py, as one state machine: upload, load & standardize  *)
(* columns, the three sidebar filters, the data editor, and the rest of    *)
(* the script (post-edit cleaning, derived metrics, KPIs, CSV export and   *)
(* the group-by aggregates).                                               *)
(*                                                                         *)
(* Strings are sequences of chunks: the chunk " " is one whitespace        *)
(* character, any other chunk is a run of non-whitespace text, so that     *)
(* str.strip() is computed and not assumed.  Numbers are exact rationals   *)
(* n/q (q > 0, lowest terms); float rounding is not modelled.              *)
(***************************************************************************)
EXTENDS Integers, Sequences, FiniteSets, TLC

VARIABLES
    app,                \* which script runs: "matplotlib" or "plotly"
    pc,                 \* position of the script / session
    uploaded_file,      \* the sheet read by pd.read_excel
    df,                 \* the loaded, standardized frame
    error,              \* names listed by st.error (sorted), <<>> if none
    available_months,   \* options of the Month selectbox
    month,              \* selected month
    brand_options,      \* options of the Brand selectbox
    brand,              \* selected brand
    destination_options,\* options of the Destination selectbox
    destination,        \* selected destination
    d,                  \* the filtered frame
    edited,             \* the frame held / returned by st.data_editor
    n_edits,            \* number of editor interactions so far
    kpi,                \* KPI totals and overall ratios
    csv,                \* the table written by to_csv for the download
    by_brand,           \* group-by aggregate per brand
    by_dest             \* group-by aggregate per destination

vars == <<app, pc, uploaded_file, df, error, available_months, month,
          brand_options, brand, destination_options, destination, d,
          edited, n_edits, kpi, csv, by_brand, by_dest>>

(***************************************************************************)
(* Bounds of the model.                                                    *)
(***************************************************************************)
MaxRows == 2
MaxEdits == 1

(***************************************************************************)
(* Strings.                                                                *)
(***************************************************************************)
SP == " "
L(w) == <<w>>

\* Every chunk the scripts ever order with sorted(), in Python's (code point) order.
ChunkOrder ==
    <<" ", "7", "A", "All", "April", "B", "Brand", "Destination", "Jan", "LEADS",
      "Leads", "March", "May", "Month", "N/A", "Notes", "SPEND", "Spend",
      "Spent", "Spent (GBP)", "X", "Y", "Z", "brand", "conversion_rate",
      "converted_leads", "cpl", "destination", "impressions", "inf", "leads",
      "messages", "month", "nan", "spent_gbp">>

Rank(c) == CHOOSE i \in DOMAIN ChunkOrder : ChunkOrder[i] = c

RECURSIVE LexLess(_, _)
LexLess(a, b) ==
    IF a = <<>> THEN b # <<>>
    ELSE IF b = <<>> THEN FALSE
    ELSE IF Head(a) = Head(b) THEN LexLess(Tail(a), Tail(b))
    ELSE Rank(Head(a)) < Rank(Head(b))

RECURSIVE sorted(_)
sorted(S) ==
    IF S = {} THEN <<>>
    ELSE LET m == CHOOSE x \in S : \A y \in S \ {x} : LexLess(x, y)
         IN  <<m>> \o sorted(S \ {m})

RECURSIVE lstrip(_)
lstrip(s) == IF s # <<>> /\ Head(s) = SP THEN lstrip(Tail(s)) ELSE s

RECURSIVE rstrip(_)
rstrip(s) ==
    IF s # <<>> /\ s[Len(s)] = SP THEN rstrip(SubSeq(s, 1, Len(s) - 1)) ELSE s

\* a strip that only removes leading whitespace
strip_left_only(s) == lstrip(s)

strip(s) == rstrip(lstrip(s))

Range(f) == {f[i] : i \in DOMAIN f}

(***************************************************************************)
(* Cell values: text, number (rational n/q), null (None / NaN) or the      *)
(* float infinity.                                                         *)
(***************************************************************************)
Text(s) == [kind |-> "text", s |-> s, n |-> 0, q |-> 1]
Num(n)  == [kind |-> "num", s |-> <<>>, n |-> n, q |-> 1]
NaN     == [kind |-> "null", s |-> <<>>, n |-> 0, q |-> 1]
Inf     == [kind |-> "inf", s |-> <<>>, n |-> 0, q |-> 1]
IsNull(v) == v.kind = "null"

Abs(x) == IF x < 0 THEN -x ELSE x

RECURSIVE Gcd(_, _)
Gcd(a, b) == IF b = 0 THEN a ELSE Gcd(b, a % b)

\* n / q as a number in lowest terms with a positive denominator
Frac(n, q) ==
    LET g == Gcd(Abs(n), Abs(q))
        sgn == IF q < 0 THEN -1 ELSE 1
    IN  [kind |-> "num", s |-> <<>>, n |-> sgn * (n \div g), q |-> Abs(q) \div g]

\* the numeric literals among the text chunks of the model; "inf" parses to
\* the float infinity
ParseFloat(s) ==
    CASE s = L("7")   -> Num(7)
      [] s = L("inf") -> Inf
      [] OTHER        -> NaN

\* pd.to_numeric(x, errors="coerce") on one cell
to_numeric(v) ==
    CASE v.kind \in {"num", "inf"} -> v
      [] v.kind = "text"          -> ParseFloat(strip(v.s))
      [] OTHER                    -> NaN

\* .fillna(0) / .fillna(0.0) on one cell
fillna(v) == IF IsNull(v) THEN Num(0) ELSE v

\* .astype(int) of a column raises on a non-finite value
\* ("Cannot convert non-finite values (NA or inf) to integer")
IntCastRaises(v) == fillna(to_numeric(v)).kind = "inf"

\* .astype(int) on one non-null number: truncation toward zero
astype_int(v) ==
    IF v.n >= 0 THEN Num(v.n \div v.q) ELSE Num(-((-v.n) \div v.q))

\* pd.to_numeric(col, errors="coerce").fillna(0.0)
coerce_float(v) == fillna(to_numeric(v))
\* pd.to_numeric(col, errors="coerce").fillna(0).astype(int)
coerce_int(v) == astype_int(fillna(to_numeric(v)))

\* str(x) of one cell, as .astype(str) produces it
astype_str(v) ==
    CASE v.kind = "text" -> v.s
      [] v.kind = "num"  -> L(ToString(v.n))
      [] v.kind = "inf"  -> L("inf")
      [] OTHER           -> L("nan")

\* col.astype(str).str.strip() on one cell
coerce_str(v) == Text(strip(astype_str(v)))

\* elementwise == of pandas: a null never equals anything
PdEq(v, w) == ~IsNull(v) /\ ~IsNull(w) /\ v = w

(***************************************************************************)
(* Frames: a sequence of column names and a sequence of rows of cells.     *)
(***************************************************************************)
EmptyFrame == [columns |-> <<>>, rows |-> <<>>]

HasCol(f, c) == \E i \in DOMAIN f.columns : f.columns[i] = c
ColIdx(f, c) == CHOOSE i \in DOMAIN f.columns : f.columns[i] = c
Cell(f, r, c) == f.rows[r][ColIdx(f, c)]
Count(f, c) == Cardinality({i \in DOMAIN f.columns : f.columns[i] = c})

\* f[c] = vals  (vals: one value per row); appends the column when absent
Assign(f, c, vals) ==
    IF HasCol(f, c)
    THEN [f EXCEPT !.rows =
            [r \in DOMAIN f.rows |-> [f.rows[r] EXCEPT ![ColIdx(f, c)] = vals[r]]]]
    ELSE [columns |-> Append(f.columns, c),
          rows |-> [r \in DOMAIN f.rows |-> Append(f.rows[r], vals[r])]]

\* f[cols]: the projection on the listed columns, in that order
Project(f, cols) ==
    [columns |-> cols,
     rows |-> [r \in DOMAIN f.rows |->
                 [j \in DOMAIN cols |-> Cell(f, r, cols[j])]]]

RECURSIVE SelectSeq2(_, _, _)
SelectSeq2(rows, keep, i) ==
    IF i > Len(rows) THEN <<>>
    ELSE (IF keep[i] THEN <<rows[i]>> ELSE <<>>) \o SelectSeq2(rows, keep, i + 1)

\* f[f[c] == v]
Where(f, c, v) ==
    [f EXCEPT !.rows =
        SelectSeq2(f.rows, [r \in DOMAIN f.rows |-> PdEq(Cell(f, r, c), v)], 1)]

\* f[c].dropna().unique(), as a set
Unique(f, c) == {Cell(f, r, c) : r \in DOMAIN f.rows} \ {NaN}

\* f[c] = f[c].astype(str).str.strip()
StrCol(f, c) == Assign(f, c, [r \in DOMAIN f.rows |-> coerce_str(Cell(f, r, c))])

\* f[c] = pd.to_numeric(f[c], errors="coerce").fillna(0.0)
FloatCol(f, c) == Assign(f, c, [r \in DOMAIN f.rows |-> coerce_float(Cell(f, r, c))])

\* f[c] = pd.to_numeric(f[c], errors="coerce").fillna(0).astype(int)
IntCol(f, c) == Assign(f, c, [r \in DOMAIN f.rows |-> coerce_int(Cell(f, r, c))])

\* f[c] = v  (a scalar broadcast to every row)
Fill(f, c, v) == Assign(f, c, [r \in DOMAIN f.rows |-> v])

(***************************************************************************)
(* Load & standardize columns.                                             *)
(***************************************************************************)
month_col == L("month")
brand_col == L("brand")
destination_col == L("destination")
spent_gbp_col == L("spent_gbp")
leads_col == L("leads")
messages_col == L("messages")
impressions_col == L("impressions")
converted_leads_col == L("converted_leads")
cpl_col == L("cpl")
conversion_rate_col == L("conversion_rate")

\* the rename map without its "Spend" entry
rename_map_without_spend(c) ==
    CASE c = L("Month")           -> month_col
      [] c = L("Brand")           -> brand_col
      [] c = L("Destination")     -> destination_col
      [] c = L("Spent (GBP)")     -> spent_gbp_col
      [] c = L("Spend (GBP)")     -> spent_gbp_col
      [] c = L("Spent")           -> spent_gbp_col
      [] c = L("Leads")           -> leads_col
      [] c = L("Messages")        -> messages_col
      [] c = L("Impressions")     -> impressions_col
      [] c = L("Converted Leads") -> converted_leads_col
      [] c = L("Converted")       -> converted_leads_col
      [] OTHER                    -> c

\* rename_map.get(c, c) of app_matplotlib.py
rename_map(c) ==
    CASE c = L("Month")           -> month_col
      [] c = L("Brand")           -> brand_col
      [] c = L("Destination")     -> destination_col
      [] c = L("Spent (GBP)")     -> spent_gbp_col
      [] c = L("Spend (GBP)")     -> spent_gbp_col
      [] c = L("Spent")           -> spent_gbp_col
      [] c = L("Spend")           -> spent_gbp_col
      [] c = L("Leads")           -> leads_col
      [] c = L("Messages")        -> messages_col
      [] c = L("Impressions")     -> impressions_col
      [] c = L("Converted Leads") -> converted_leads_col
      [] c = L("Converted")       -> converted_leads_col
      [] OTHER                    -> c

\* the columns= mapping of df.rename in app_plotly_pandas.py
plotly_rename(c) ==
    CASE c = L("Brand")       -> brand_col
      [] c = L("Destination") -> destination_col
      [] c = L("Leads")       -> leads_col
      [] c = L("Spent (GBP)") -> spent_gbp_col
      [] c = L("Month")       -> month_col
      [] OTHER                -> c

Rename(a, c) == IF a = "matplotlib" THEN rename_map(c) ELSE plotly_rename(c)

\* df.columns = df.columns.str.strip(); df = df.rename(columns=...)
Standardize(a, f) ==
    [f EXCEPT !.columns = [j \in DOMAIN f.columns |-> Rename(a, strip(f.columns[j]))]]

required_cols == {month_col, brand_col, destination_col, spent_gbp_col, leads_col}
optional_cols == <<messages_col, impressions_col, converted_leads_col>>

\* a check that also demands the optional columns
MissingWithOptional(f) == (required_cols \cup Range(optional_cols)) \ Range(f.columns)

\* required_cols - set(df.columns)
Missing(f) == required_cols \ Range(f.columns)

\* the columns the load step reads with df[c]; df[c] of a name carried by two
\* columns is a frame, on which .str and pd.to_numeric raise
Touched(a) ==
    IF a = "matplotlib" THEN required_cols \cup Range(optional_cols) ELSE required_cols
Ambiguous(a, f) == \E c \in Touched(a) : Count(f, c) > 1

\* the columns the load step casts with .astype(int)
int_cols(a) ==
    IF a = "matplotlib"
    THEN {leads_col, messages_col, impressions_col, converted_leads_col}
    ELSE {leads_col}

\* some cell of a column cast with .astype(int) is infinite after to_numeric
NonFinite(a, f) ==
    \E c \in int_cols(a) :
        HasCol(f, c) /\ \E r \in DOMAIN f.rows : IntCastRaises(Cell(f, r, c))

\* the "Types" block raises an exception Streamlit reports as a traceback
TypesRaise(a, f) == Ambiguous(a, f) \/ NonFinite(a, f)

month_order ==
    <<L("January"), L("February"), L("March"), L("April"), L("May"), L("June"),
      L("July"), L("August"), L("September"), L("October"), L("November"),
      L("December")>>

\* pd.Categorical(col, categories=month_order): other values become NaN
Categorical(v) == IF v.kind = "text" /\ v.s \in Range(month_order) THEN v ELSE NaN

\* f[c] = pd.Categorical(f[c], categories=month_order, ordered=True)
CatCol(f, c) == Assign(f, c, [r \in DOMAIN f.rows |-> Categorical(Cell(f, r, c))])

RECURSIVE AddOptional(_, _)
AddOptional(f, cols) ==
    IF cols = <<>> THEN f
    ELSE AddOptional(IF HasCol(f, Head(cols)) THEN f ELSE Fill(f, Head(cols), Num(0)),
                     Tail(cols))

\* the three string columns: .astype(str).str.strip()
CoerceText(f) == StrCol(StrCol(StrCol(f, month_col), brand_col), destination_col)

\* the numeric columns of the matplotlib script (ingestion and post-edit)
CoerceNumeric(f) ==
    IntCol(IntCol(IntCol(IntCol(FloatCol(f, spent_gbp_col), leads_col),
                         messages_col), impressions_col), converted_leads_col)

\* the "Types" blocks of the two scripts
Types(a, f) ==
    IF a = "matplotlib"
    THEN CoerceNumeric(CoerceText(AddOptional(f, optional_cols)))
    ELSE CatCol(CoerceText(FloatCol(IntCol(f, leads_col), spent_gbp_col)), month_col)

\* [m for m in month_order if m in unique] or sorted(unique)
AvailableMonths(f) ==
    LET present == {v.s : v \in Unique(f, month_col)}
        inorder == SelectSeq(month_order, LAMBDA m : m \in present)
    IN  IF inorder # <<>> THEN inorder ELSE sorted(present)

(***************************************************************************)
(* The uploaded sheets the model draws from.  A sheet is built from column *)
(* specifications <<raw header, k>> (k: which cell of a sample row the     *)
(* column holds) and a sequence of sample rows.                            *)
(***************************************************************************)
Sheet(colspecs, samples) ==
    [columns |-> [j \in DOMAIN colspecs |-> colspecs[j][1]],
     rows |-> [i \in DOMAIN samples |->
                 [j \in DOMAIN colspecs |-> samples[i][colspecs[j][2]]]]]

\* cells: Month, Brand, Destination, Spent, Leads, Messages, Impressions,
\* Converted, Notes
SampleRows ==
    { <<Text(L("March")), Text(L("A")), Text(L("X")), Num(10), Num(1),
        Num(2), Num(5), Num(1), Text(L("Z"))>>,
      <<Text(L("March")), Text(L("A")), Text(L("Y")), Num(0), Num(0),
        NaN, Num(0), Num(0), NaN>>,
      <<Text(<<SP, "March">>), Text(<<"B", SP>>), Text(<<SP>>), Num(4), Text(L("N/A")),
        Text(L("N/A")), Text(L("7")), Num(1), Text(L("Z"))>>,
      <<Text(L("Jan")), Text(L("All")), Text(L("X")), Num(-5), Frac(5, 2),
        Num(0), Num(-5), Num(-1), NaN>>,
      <<Text(L("April")), Text(L("B")), NaN, Text(L("7")), Num(2),
        Num(1), Num(1), Num(3), Text(L("Z"))>>,
      <<Text(L("March")), Text(L("B")), Text(L("Y")), Num(4), Text(L("inf")),
        Num(1), Num(1), Num(1), NaN>> }

FixedRows ==
    << <<Text(L("March")), Text(L("A")), Text(L("X")), Num(10), Num(1),
         Num(2), Num(5), Num(1), Text(L("Z"))>> >>

TemplateCols ==
    << <<L("Month"), 1>>, <<L("Brand"), 2>>, <<L("Destination"), 3>>,
       <<L("Spent (GBP)"), 4>>, <<L("Leads"), 5>>, <<L("Messages"), 6>>,
       <<L("Impressions"), 7>>, <<L("Converted Leads"), 8>> >>

Opt(h, k) == {<<>>, << <<h, k>> >>}
OneOf(hs, k) == {<< <<h, k>> >> : h \in hs}

\* header rows: each required column absent or present under some spelling,
\* plus at most one further column
HeaderRows ==
    { m \o b \o de \o sp \o le \o x :
        m  \in Opt(L("Month"), 1),
        b  \in OneOf({L("Brand"), L("brand")}, 2),
        de \in Opt(<<SP, "Destination", SP>>, 3),
        sp \in Opt(L("Spent (GBP)"), 4) \cup OneOf({L("Spend"), L("SPEND")}, 4),
        le \in Opt(L("Leads"), 5) \cup OneOf({<<SP, "leads", SP>>, L("LEADS")}, 5),
        x  \in Opt(L("Spent"), 4) \cup OneOf({L("Spend (GBP)")}, 4)
                  \cup OneOf({<<"Notes", SP>>}, 9) }

Tables == UNION {[1..n -> SampleRows] : n \in 0..MaxRows}

Files ==
    {Sheet(h, FixedRows) : h \in HeaderRows}
      \cup {Sheet(TemplateCols, t) : t \in Tables}

Apps == {"matplotlib", "plotly"}

ALL == Text(L("All"))

(***************************************************************************)
(* The state machine.                                                      *)
(***************************************************************************)
NoKpi == [total_spend |-> Num(0), total_leads |-> Num(0), total_messages |-> Num(0),
          total_impressions |-> Num(0), total_converted |-> Num(0),
          overall_cpl |-> Num(0), overall_cr |-> Num(0)]

Init ==
    /\ app \in Apps
    /\ pc = "idle"
    /\ uploaded_file = EmptyFrame
    /\ df = EmptyFrame
    /\ error = <<>>
    /\ available_months = <<>>
    /\ month = NaN
    /\ brand_options = <<>>
    /\ brand = NaN
    /\ destination_options = <<>>
    /\ destination = NaN
    /\ d = EmptyFrame
    /\ edited = EmptyFrame
    /\ n_edits = 0
    /\ kpi = NoKpi
    /\ csv = EmptyFrame
    /\ by_brand = {}
    /\ by_dest = {}

\* st.file_uploader returns a file
Upload ==
    /\ pc = "idle"
    /\ \E f \in Files : uploaded_file' = f
    /\ pc' = "uploaded"
    /\ UNCHANGED <<app, df, error, available_months, month, brand_options, brand,
                   destination_options, destination, d, edited, n_edits, kpi, csv,
                   by_brand, by_dest>>

\* pd.read_excel ... available_months: the script up to the Month selectbox
Load ==
    /\ pc = "uploaded"
    /\ LET f == Standardize(app, uploaded_file)
       IN  IF Missing(f) # {}
           THEN /\ df' = f
                /\ error' = sorted(Missing(f))
                /\ pc' = "stopped"
                /\ UNCHANGED available_months
           ELSE IF TypesRaise(app, f)
           THEN /\ df' = f
                /\ pc' = "crashed"
                /\ UNCHANGED <<error, available_months>>
           ELSE /\ df' = Types(app, f)
                /\ available_months' = AvailableMonths(df')
                /\ pc' = "loaded"
                /\ UNCHANGED error
    /\ UNCHANGED <<app, uploaded_file, month, brand_options, brand,
                   destination_options, destination, d, edited, n_edits, kpi, csv,
                   by_brand, by_dest>>

\* ["All"] + sorted(f[c].dropna().unique())
Options(f, c) == <<ALL>> \o [i \in DOMAIN sorted({v.s : v \in Unique(f, c)}) |->
                               Text(sorted({v.s : v \in Unique(f, c)})[i])]

\* st.sidebar.selectbox("Month", ...); d = df[df["month"] == month]
SelectMonth ==
    /\ pc = "loaded"
    /\ IF available_months = <<>>
       THEN month' = NaN
       ELSE \E i \in DOMAIN available_months : month' = Text(available_months[i])
    /\ d' = Where(df, month_col, month')
    /\ brand_options' = Options(d', brand_col)
    /\ pc' = "month"
    /\ UNCHANGED <<app, uploaded_file, df, error, available_months, brand,
                   destination_options, destination, edited, n_edits, kpi, csv,
                   by_brand, by_dest>>

\* a filter that never narrows
NarrowNothing(f, c, sel) == f

\* if sel != "All": d = d[d[c] == sel]
Narrow(f, c, sel) == IF sel # ALL THEN Where(f, c, sel) ELSE f

\* st.sidebar.selectbox("Brand", ...)
SelectBrand ==
    /\ pc = "month"
    /\ \E i \in DOMAIN brand_options : brand' = brand_options[i]
    /\ d' = Narrow(d, brand_col, brand')
    /\ destination_options' = Options(d', destination_col)
    /\ pc' = "brand"
    /\ UNCHANGED <<app, uploaded_file, df, error, available_months, month,
                   brand_options, destination, edited, n_edits, kpi, csv,
                   by_brand, by_dest>>

editable_cols ==
    <<month_col, brand_col, destination_col, spent_gbp_col, leads_col,
      messages_col, impressions_col, converted_leads_col>>

\* st.sidebar.selectbox("Destination", ...); d_edit = d[editable_cols].copy()
SelectDestination ==
    /\ pc = "brand"
    /\ \E i \in DOMAIN destination_options : destination' = destination_options[i]
    /\ d' = Narrow(d, destination_col, destination')
    /\ edited' = IF app = "matplotlib" THEN Project(d', editable_cols) ELSE edited
    /\ pc' = "filtered"
    /\ UNCHANGED <<app, uploaded_file, df, error, available_months, month,
                   brand_options, brand, destination_options, n_edits, kpi, csv,
                   by_brand, by_dest>>

(***************************************************************************)
(* st.data_editor(d_edit, num_rows="dynamic", ...): one interaction each.  *)
(***************************************************************************)
text_cols == {month_col, brand_col, destination_col}

\* what a user leaves in a text cell: nothing (the cell cleared), or any text
EditorTexts == {NaN, Text(<<SP, "Z">>)}
\* what a user types into a NumberColumn(min_value=0): a number n >= 0
EditorNumbers == {Num(3)}

EditorValues(c) == IF c \in text_cols THEN EditorTexts ELSE EditorNumbers

Editing == app = "matplotlib" /\ pc = "filtered" /\ n_edits < MaxEdits

EditorUnchanged ==
    UNCHANGED <<app, pc, uploaded_file, df, error, available_months, month,
                brand_options, brand, destination_options, destination, d, kpi,
                csv, by_brand, by_dest>>

\* the editor's "add row": a row of empty cells
AddRow ==
    /\ Editing
    /\ edited' = [edited EXCEPT !.rows =
                    Append(edited.rows, [j \in DOMAIN edited.columns |-> NaN])]
    /\ n_edits' = n_edits + 1
    /\ EditorUnchanged

\* the editor's "delete row"
DeleteRow ==
    /\ Editing
    /\ \E r \in DOMAIN edited.rows :
         edited' = [edited EXCEPT !.rows =
                      SelectSeq2(edited.rows, [i \in DOMAIN edited.rows |-> i # r], 1)]
    /\ n_edits' = n_edits + 1
    /\ EditorUnchanged

\* typing into one cell
EditCell ==
    /\ Editing
    /\ \E r \in DOMAIN edited.rows, j \in DOMAIN edited.columns :
         \E v \in EditorValues(edited.columns[j]) :
            edited' = [edited EXCEPT !.rows[r][j] = v]
    /\ n_edits' = n_edits + 1
    /\ EditorUnchanged

(***************************************************************************)
(* Derived metrics, KPIs, export and aggregates.                           *)
(***************************************************************************)
\* n / d of two numbers
Div(x, y) == Frac(x.n * y.q, x.q * y.n)

\* a safe_div that hands the numerator back on a zero denominator
safe_div_numerator(x, y) == IF IsNull(y) \/ y.n = 0 THEN x ELSE Div(x, y)

\* def safe_div(n, d): return (n / d) if d not in (0, None) else 0.0
safe_div(x, y) == IF IsNull(y) \/ y.n = 0 THEN Num(0) ELSE Div(x, y)

Plus(a, b) == Frac(a.n * b.q + b.n * a.q, a.q * b.q)

RECURSIVE SumSeq(_)
SumSeq(vs) == IF vs = <<>> THEN Num(0) ELSE Plus(Head(vs), SumSeq(Tail(vs)))

\* f[c].sum()
Sum(f, c) == SumSeq([r \in DOMAIN f.rows |-> Cell(f, r, c)])

\* "Clean edited values (in case)": the five numeric columns only
CleanEdited(f) == CoerceNumeric(f)

\* edited["cpl"] = ...; edited["conversion_rate"] = ...
DerivedMetrics(f) ==
    LET g == Assign(f, cpl_col,
                 [r \in DOMAIN f.rows |->
                    safe_div(Cell(f, r, spent_gbp_col), Cell(f, r, leads_col))])
    IN  Assign(g, conversion_rate_col,
            [r \in DOMAIN f.rows |->
               safe_div(Cell(f, r, converted_leads_col), Cell(f, r, leads_col))])

\* KPIs from edited data
Kpis(f) ==
    [total_spend |-> Sum(f, spent_gbp_col),
     total_leads |-> Sum(f, leads_col),
     total_messages |-> Sum(f, messages_col),
     total_impressions |-> Sum(f, impressions_col),
     total_converted |-> Sum(f, converted_leads_col),
     overall_cpl |-> safe_div(Sum(f, spent_gbp_col), Sum(f, leads_col)),
     overall_cr |-> safe_div(Sum(f, converted_leads_col), Sum(f, leads_col))]

\* one field of to_csv: a null is written as the empty field, and so is ""
csv_field(v) == IF v = Text(<<>>) THEN NaN ELSE v

\* f.to_csv(index=False): the header row and the fields
to_csv(f) ==
    [columns |-> f.columns,
     rows |-> [r \in DOMAIN f.rows |->
                 [j \in DOMAIN f.columns |-> csv_field(f.rows[r][j])]]]

\* an aggregate row whose ratios are the means of the rows' ratios
AggRowMean(f, key, k) ==
    LET g == Where(f, key, k)
    IN  [key |-> k,
         spent_gbp |-> Sum(g, spent_gbp_col),
         leads |-> Sum(g, leads_col),
         converted_leads |-> Sum(g, converted_leads_col),
         impressions |-> Sum(g, impressions_col),
         cpl |-> Div(Sum(g, cpl_col), Num(Len(g.rows))),
         conversion_rate |-> Div(Sum(g, conversion_rate_col), Num(Len(g.rows)))]

\* one row of edited.groupby(key, as_index=False).agg(sums), with the ratios
AggRow(f, key, k) ==
    LET g == Where(f, key, k)
    IN  [key |-> k,
         spent_gbp |-> Sum(g, spent_gbp_col),
         leads |-> Sum(g, leads_col),
         converted_leads |-> Sum(g, converted_leads_col),
         impressions |-> Sum(g, impressions_col),
         cpl |-> safe_div(Sum(g, spent_gbp_col), Sum(g, leads_col)),
         conversion_rate |-> safe_div(Sum(g, converted_leads_col), Sum(g, leads_col))]

\* groupby drops the rows whose key is null; the order of the rows of the
\* result is not modelled
GroupBy(f, key) == {AggRow(f, key, k) : k \in Unique(f, key)}

\* d.groupby(key, as_index=False).agg(spent_gbp=sum, leads=sum) of the plotly script
PlotlyGroupBy(f, key) ==
    {[key |-> k, spent_gbp |-> Sum(Where(f, key, k), spent_gbp_col),
      leads |-> Sum(Where(f, key, k), leads_col)] : k \in Unique(f, key)}

\* f[c] = f.apply(lambda r: ..., axis=1) on a frame without rows: apply hands
\* back a frame in the pandas releases that probe the function with an empty
\* Series (r["leads"] raises KeyError there), and the assignment of a frame to
\* one column raises ValueError; the releases that probe it with a Series
\* indexed by the columns hand back an empty Series and the assignment goes
\* through.  The scripts pin no release: both outcomes.
EmptyApplyOutcomes == {"raises", "assigns"}

\* the rest of the script, from the editor's return value to the last table
Render ==
    /\ pc = "filtered"
    /\ \E pandas \in EmptyApplyOutcomes :
         IF app = "matplotlib"
         THEN IF pandas = "raises" /\ edited.rows = <<>>
              THEN /\ edited' = CleanEdited(edited)
                   /\ pc' = "crashed_render"
                   /\ UNCHANGED <<kpi, csv, by_brand, by_dest>>
              ELSE /\ edited' = DerivedMetrics(CleanEdited(edited))
                   /\ kpi' = Kpis(edited')
                   /\ csv' = to_csv(edited')
                   /\ by_brand' = GroupBy(edited', brand_col)
                   /\ IF pandas = "raises" /\ by_brand' = {}
                      THEN pc' = "crashed_render" /\ UNCHANGED by_dest
                      ELSE /\ by_dest' = GroupBy(edited', destination_col)
                           /\ pc' = IF pandas = "raises" /\ by_dest' = {}
                                    THEN "crashed_render" ELSE "rendered"
         ELSE /\ csv' = to_csv(d)
              /\ kpi' = [kpi EXCEPT !.total_spend = Sum(d, spent_gbp_col),
                                    !.total_leads = Sum(d, leads_col)]
              /\ by_brand' = PlotlyGroupBy(d, brand_col)
              /\ by_dest' = PlotlyGroupBy(d, destination_col)
              /\ pc' = "rendered"
              /\ UNCHANGED edited
    /\ UNCHANGED <<app, uploaded_file, df, error, available_months, month,
                   brand_options, brand, destination_options, destination, d,
                   n_edits>>

Next ==
    \/ Upload
    \/ Load
    \/ SelectMonth
    \/ SelectBrand
    \/ SelectDestination
    \/ AddRow
    \/ DeleteRow
    \/ EditCell
    \/ Render

Spec == Init /\ [][Next]_vars

(***************************************************************************)
(* Properties.                                                             *)
(***************************************************************************)
Rendered == app = "matplotlib" /\ pc = "rendered"

\* c is the quotient x / y, or 0 when y is 0 (stated by cross-multiplication)
IsQuotient(c, x, y) ==
    /\ c.kind = "num"
    /\ IF y.n = 0 THEN c.n = 0 ELSE c.n * y.n * x.q = x.n * y.q * c.q

RECURSIVE TotalOf(_, _, _)
\* the sum of column c over the rows R of f
TotalOf(f, R, c) ==
    IF R = {} THEN Num(0)
    ELSE LET r == CHOOSE x \in R : TRUE
         IN  Plus(Cell(f, r, c), TotalOf(f, R \ {r}, c))

\* C1: in every row of the edited set, every aggregate row and the KPI totals,
\* cpl is spent_gbp / leads and conversion_rate is converted_leads / leads when
\* leads is nonzero, and both are 0 when leads is 0.
C1_SafeDivision ==
    Rendered =>
      /\ \A r \in DOMAIN edited.rows :
           /\ IsQuotient(Cell(edited, r, cpl_col),
                         Cell(edited, r, spent_gbp_col), Cell(edited, r, leads_col))
           /\ IsQuotient(Cell(edited, r, conversion_rate_col),
                         Cell(edited, r, converted_leads_col), Cell(edited, r, leads_col))
      /\ \A g \in by_brand \cup by_dest :
           /\ IsQuotient(g.cpl, g.spent_gbp, g.leads)
           /\ IsQuotient(g.conversion_rate, g.converted_leads, g.leads)
      /\ IsQuotient(kpi.overall_cpl, kpi.total_spend, kpi.total_leads)
      /\ IsQuotient(kpi.overall_cr, kpi.total_converted, kpi.total_leads)

\* a rendering with a row of zero leads and nonzero spend (cpl 0), a row of
\* nonzero leads and nonzero cpl, and an aggregate row of zero leads
C1_Witness ==
    /\ Rendered
    /\ \E r \in DOMAIN edited.rows :
         /\ Cell(edited, r, leads_col).n = 0
         /\ Cell(edited, r, spent_gbp_col).n # 0
         /\ Cell(edited, r, cpl_col) = Num(0)
    /\ \E r \in DOMAIN edited.rows :
         /\ Cell(edited, r, leads_col).n # 0
         /\ Cell(edited, r, cpl_col).n # 0
    /\ \E g \in by_dest : g.leads.n = 0 /\ g.spent_gbp.n # 0 /\ g.cpl = Num(0)

\* C2: the cpl of every by-brand and by-destination group is the sum of
\* spent_gbp over the group's rows divided by the sum of leads over them (0 when
\* that sum is 0), not a mean of the rows' cpl values.
C2_SumThenDivide ==
    Rendered =>
      /\ \A g \in by_brand :
           LET R == {r \in DOMAIN edited.rows : Cell(edited, r, brand_col) = g.key}
           IN  IsQuotient(g.cpl, TotalOf(edited, R, spent_gbp_col),
                          TotalOf(edited, R, leads_col))
      /\ \A g \in by_dest :
           LET R == {r \in DOMAIN edited.rows : Cell(edited, r, destination_col) = g.key}
           IN  IsQuotient(g.cpl, TotalOf(edited, R, spent_gbp_col),
                          TotalOf(edited, R, leads_col))

\* rows (spent 10, leads 1) and (spent 0, leads 0) of one brand aggregate to cpl 10
C2_Witness ==
    /\ Rendered
    /\ \E g \in by_brand :
         /\ g.cpl = Num(10)
         /\ \E r1, r2 \in DOMAIN edited.rows :
              /\ r1 # r2
              /\ Cell(edited, r1, brand_col) = g.key
              /\ Cell(edited, r2, brand_col) = g.key
              /\ Cell(edited, r1, spent_gbp_col) = Num(10)
              /\ Cell(edited, r1, leads_col) = Num(1)
              /\ Cell(edited, r2, spent_gbp_col) = Num(0)
              /\ Cell(edited, r2, leads_col) = Num(0)

\* the required names that no header of the uploaded sheet resolves to
Absent ==
    required_cols \
       {Rename(app, strip(uploaded_file.columns[j])) : j \in DOMAIN uploaded_file.columns}

\* nothing past the load step has run
NoOutput ==
    /\ available_months = <<>> /\ month = NaN
    /\ brand_options = <<>> /\ brand = NaN
    /\ destination_options = <<>> /\ destination = NaN
    /\ d = EmptyFrame /\ edited = EmptyFrame /\ n_edits = 0
    /\ kpi = NoKpi /\ csv = EmptyFrame /\ by_brand = {} /\ by_dest = {}

\* C3: once the load step has run, the script is stopped with the
\* missing-columns error exactly when a required name is absent after renaming;
\* the error lists exactly the absent names in sorted order, and a stopped
\* script has produced no output and takes no further step.
C3_MissingColumns ==
    pc \notin {"idle", "uploaded"} =>
      /\ (pc = "stopped") <=> (Absent # {})
      /\ pc # "stopped" => error = <<>>
      /\ pc = "stopped" =>
           /\ Range(error) = Absent
           /\ Len(error) = Cardinality(Absent)
           /\ \A i, j \in DOMAIN error : i < j => LexLess(error[i], error[j])
           /\ NoOutput
           /\ ~ENABLED Next

\* a sheet without a leads column and without at least one more required column
C3_Witness ==
    /\ pc = "stopped"
    /\ leads_col \in Range(error)
    /\ Len(error) >= 2
    /\ \A j \in DOMAIN uploaded_file.columns :
         strip(uploaded_file.columns[j]) \notin {L("Leads"), L("leads")}

Loaded == pc \in {"loaded", "month", "brand", "filtered", "rendered"}

\* the numeric columns the running script coerces
NumericCols ==
    IF app = "matplotlib"
    THEN {spent_gbp_col, leads_col, messages_col, impressions_col, converted_leads_col}
    ELSE {spent_gbp_col, leads_col}

NonNegative(f) ==
    \A r \in DOMAIN f.rows : \A c \in NumericCols :
        Cell(f, r, c).kind = "num" /\ Cell(f, r, c).n >= 0

\* C4: after the ingestion coercion, and again after the post-edit coercion,
\* every numeric field of every record is a number and is not negative.
C4_NonNegative ==
    /\ Loaded => NonNegative(df)
    /\ Rendered => NonNegative(edited)

\* the rows of the loaded frame that match every selection made so far
MatchMonth(row) == PdEq(row[ColIdx(df, month_col)], month)
MatchBrand(row) == brand = ALL \/ PdEq(row[ColIdx(df, brand_col)], brand)
MatchDestination(row) ==
    destination = ALL \/ PdEq(row[ColIdx(df, destination_col)], destination)

ValuesOf(rows, c) == {rows[i][ColIdx(df, c)] : i \in DOMAIN rows}

\* C5: the brand options are "All" plus exactly the brands of the rows of the
\* selected month; the destination options are "All" plus exactly the
\* destinations of the rows of the selected month and brand; the filtered
\* subset holds exactly the rows that match every selection other than "All".
C5_ProgressiveFilters ==
    LET m  == SelectSeq(df.rows, MatchMonth)
        mb == SelectSeq(m, MatchBrand)
        mbd == SelectSeq(mb, MatchDestination)
    IN  /\ pc \in {"month", "brand", "filtered", "rendered"} =>
             /\ brand_options[1] = ALL
             /\ Range(brand_options) = {ALL} \cup ValuesOf(m, brand_col)
        /\ pc = "month" => d.rows = m
        /\ pc \in {"brand", "filtered", "rendered"} =>
             /\ brand \in Range(brand_options)
             /\ destination_options[1] = ALL
             /\ Range(destination_options) = {ALL} \cup ValuesOf(mb, destination_col)
        /\ pc = "brand" => d.rows = mb
        /\ pc \in {"filtered", "rendered"} =>
             /\ destination \in Range(destination_options)
             /\ d.rows = mbd

\* a brand and a destination are selected, the loaded frame holds, under the
\* selected month, a destination of another brand that is not offered, and the
\* subset is a proper part of the month's rows
C5_Witness ==
    /\ pc = "filtered"
    /\ brand # ALL /\ destination # ALL
    /\ \E r \in DOMAIN df.rows :
         /\ MatchMonth(df.rows[r])
         /\ ~MatchBrand(df.rows[r])
         /\ Cell(df, r, destination_col) \notin Range(destination_options)
    /\ Len(d.rows) = 1

\* the load step has just run: df holds the renamed columns
LoadStep == pc \in {"loaded", "stopped", "crashed"}

Headers == uploaded_file.columns

\* the columns of the uploaded sheet that the running script resolves to c
Resolving(c) == {j \in DOMAIN Headers : Rename(app, strip(Headers[j])) = c}

\* the sheet has a column headed "Spend", none headed "Spent" or "Spent (GBP)",
\* and columns for the other four required fields
SpendHeaded ==
    /\ \E j \in DOMAIN Headers : Headers[j] = L("Spend")
    /\ \A j \in DOMAIN Headers : strip(Headers[j]) \notin {L("Spent"), L("Spent (GBP)")}
    /\ \A c \in required_cols \ {spent_gbp_col} : Resolving(c) # {}

\* the loaded spent_gbp column holds the numbers of the sheet's "Spend" column
SpendPopulates ==
    LET j == CHOOSE k \in DOMAIN Headers : Headers[k] = L("Spend")
    IN  /\ HasCol(df, spent_gbp_col)
        /\ Len(df.rows) = Len(uploaded_file.rows)
        /\ \A r \in DOMAIN uploaded_file.rows :
             uploaded_file.rows[r][j].kind = "num" =>
                Cell(df, r, spent_gbp_col) = uploaded_file.rows[r][j]

AliasTable ==
    IF app = "matplotlib"
    THEN { <<L("Month"), month_col>>, <<L("Brand"), brand_col>>,
           <<L("Destination"), destination_col>>, <<L("Spent (GBP)"), spent_gbp_col>>,
           <<L("Spend (GBP)"), spent_gbp_col>>, <<L("Spent"), spent_gbp_col>>,
           <<L("Spend"), spent_gbp_col>>, <<L("Leads"), leads_col>>,
           <<L("Messages"), messages_col>>, <<L("Impressions"), impressions_col>>,
           <<L("Converted Leads"), converted_leads_col>>,
           <<L("Converted"), converted_leads_col>> }
    ELSE { <<L("Brand"), brand_col>>, <<L("Destination"), destination_col>>,
           <<L("Leads"), leads_col>>, <<L("Spent (GBP)"), spent_gbp_col>>,
           <<L("Month"), month_col>> }

IsTrimmed(s) == s = <<>> \/ (s[1] # SP /\ s[Len(s)] # SP)
AllSpaces(s) == \A i \in DOMAIN s : s[i] = SP

\* h without its leading and trailing whitespace
Core(h) ==
    IF AllSpaces(h) THEN <<>>
    ELSE CHOOSE c \in {SubSeq(h, a, b) : a, b \in DOMAIN h} :
           /\ IsTrimmed(c) /\ c # <<>>
           /\ \E a, b \in DOMAIN h :
                /\ c = SubSeq(h, a, b)
                /\ AllSpaces(SubSeq(h, 1, a - 1))
                /\ AllSpaces(SubSeq(h, b + 1, Len(h)))

\* str.lower on the header chunks of the model
LowerChunk(c) ==
    CASE c = "Month" -> "month"
      [] c = "Brand" -> "brand"
      [] c = "Destination" -> "destination"
      [] c = "Spent (GBP)" -> "spent (gbp)"
      [] c = "Spend (GBP)" -> "spend (gbp)"
      [] c = "Spent" -> "spent"
      [] c \in {"Spend", "SPEND"} -> "spend"
      [] c \in {"Leads", "LEADS"} -> "leads"
      [] c = "Messages" -> "messages"
      [] c = "Impressions" -> "impressions"
      [] c = "Converted Leads" -> "converted leads"
      [] c = "Converted" -> "converted"
      [] c = "Notes" -> "notes"
      [] OTHER -> c
Lower(s) == [i \in DOMAIN s |-> LowerChunk(s[i])]

\* C8 as stated: a header that differs from an alias-table entry only in letter
\* case and/or surrounding whitespace gets that entry's canonical name, and a
\* header matching no entry keeps its own (trimmed) name.
C8_CaseAndWhitespace ==
    LoadStep =>
      \A j \in DOMAIN Headers :
        /\ \A e \in AliasTable :
             Lower(Core(Headers[j])) = Lower(e[1]) => df.columns[j] = e[2]
        /\ (\A e \in AliasTable : Lower(Core(Headers[j])) # Lower(e[1]))
             => df.columns[j] = Core(Headers[j])

\* C8 as amended: only surrounding whitespace is normalized.  A header whose
\* text without surrounding whitespace is an alias-table entry gets that
\* entry's canonical name; any other header, one differing from an entry in
\* letter case included, keeps its text without the surrounding whitespace.
C8_WhitespaceOnly ==
    LoadStep =>
      \A j \in DOMAIN Headers :
        /\ \A e \in AliasTable : Core(Headers[j]) = e[1] => df.columns[j] = e[2]
        /\ (\A e \in AliasTable : Core(Headers[j]) # e[1])
             => df.columns[j] = Core(Headers[j])

\* a padded header resolved to its canonical name beside an upper-case header
\* that went through unresolved
C8_Witness ==
    /\ LoadStep
    /\ \E j \in DOMAIN Headers :
         Headers[j] = <<SP, "Destination", SP>> /\ df.columns[j] = destination_col
    /\ \E j \in DOMAIN Headers :
         Headers[j] = L("LEADS") /\ df.columns[j] = L("LEADS")
    /\ \E j \in DOMAIN Headers :
         Headers[j] = <<"Notes", SP>> /\ df.columns[j] = L("Notes")

\* the month strings of the dataset, as the ingestion coercion reads them
MonthValues ==
    LET f == Standardize(app, uploaded_file)
    IN  {coerce_str(Cell(f, r, month_col)).s : r \in DOMAIN f.rows}

Ascending(q) == \A i, j \in DOMAIN q : i < j => LexLess(q[i], q[j])

\* C9: when every month value is a canonical month name the candidates are the
\* months present in calendar order, otherwise they are the distinct month
\* values in lexical order; either way every month value present is offered.
C9_MonthCandidates ==
    Loaded =>
      /\ MonthValues \subseteq Range(month_order) =>
           available_months = SelectSeq(month_order, LAMBDA m : m \in MonthValues)
      /\ ~(MonthValues \subseteq Range(month_order)) => Ascending(available_months)
      /\ Range(available_months) = MonthValues

\* C10: after any editing, every record of the edited set that feeds metrics,
\* aggregation and export has non-null, whitespace-trimmed text in month, brand
\* and destination.
C10_EditedTextCoerced ==
    Rendered =>
      \A r \in DOMAIN edited.rows : \A c \in text_cols :
          Cell(edited, r, c).kind = "text" /\ IsTrimmed(Cell(edited, r, c).s)

\* the record set the CSV download serializes
Exported == IF app = "matplotlib" THEN edited ELSE d

\* the canonical fields the exported records carry
ExportedFields == {c \in Range(editable_cols) : HasCol(Exported, c)}

\* f read back as an uploaded sheet is accepted and yields the records g
ReadsBackAs(f, g) ==
    LET h == Standardize(app, f)
    IN  /\ Missing(h) = {}
        /\ ~Ambiguous(app, h)
        /\ Len(Types(app, h).rows) = Len(g.rows)
        /\ \A r \in DOMAIN g.rows : \A c \in ExportedFields :
              Cell(Types(app, h), r, c) = Cell(g, r, c)

\* C7: the exported table, re-ingested, passes the required-column check and
\* yields records equal to the exported ones in every canonical field, and a
\* second export and re-ingestion changes nothing further.
C7_RoundTrip ==
    pc = "rendered" =>
      /\ ReadsBackAs(csv, Exported)
      /\ LET once == Types(app, Standardize(app, csv))
         IN  ReadsBackAs(to_csv(once), once)

\* the script has ended in an unhandled exception, in the Types block or in
\* the part after the editor
Crashed == pc \in {"crashed", "crashed_render"}

\* C11: whenever the uploaded sheet carries all five required names after
\* renaming (two headers resolving to one name, malformed cells and sheets
\* without rows included), the script never ends in an error: the
\* missing-columns stop is the only fatal outcome.
C11_OnlyMissingColumnsFatal ==
    (pc \notin {"idle", "uploaded"} /\ Absent = {}) => ~Crashed

RECURSIVE SumOver(_, _)
\* the sum of field fld over the rows G of an aggregate
SumOver(G, fld) ==
    IF G = {} THEN Num(0)
    ELSE LET g == CHOOSE x \in G : TRUE
         IN  Plus(g[fld], SumOver(G \ {g}, fld))

\* every row of f belongs to a group of the aggregate G over column c
Covers(G, f, c) == \A r \in DOMAIN f.rows : \E g \in G : g.key = Cell(f, r, c)

\* C12: after any editing, the sums of spent_gbp, leads, converted_leads and
\* impressions over the by-brand rows equal the sums over the by-destination
\* rows and the KPI totals of the edited set, and every edited row belongs to a
\* group of either aggregate.
C12_AggregatesConserveTotals ==
    Rendered =>
      /\ \A p \in { <<"spent_gbp", kpi.total_spend>>, <<"leads", kpi.total_leads>>,
                     <<"converted_leads", kpi.total_converted>>,
                     <<"impressions", kpi.total_impressions>> } :
            /\ SumOver(by_brand, p[1]) = p[2]
            /\ SumOver(by_dest, p[1]) = p[2]
      /\ Covers(by_brand, edited, brand_col)
      /\ Covers(by_dest, edited, destination_col)

====
